---- MODULE Spec2Model ----
(***************************************************************************)
(* A model of preprocess.py: the boilerplate stripper clean_text, the PII  *)
(* wrapper anonymize_text and the batch pipeline main.                     *)
(*                                                                         *)
(* A text is a sequence of one-character strings, so that the regular      *)
(* expressions of clean_text are matched character by character.           *)
(***************************************************************************)
EXTENDS Integers, Sequences, FiniteSets, TLC

VARIABLES
    \* ---- a call of clean_text (specification SpecClean) ----
    cpc,            \* "input" | "cleaned" | "recleaned"
    text_in,        \* the argument of clean_text
    steps,          \* the value of the local `text` after each statement of clean_text
    result,         \* clean_text(text_in)
    again,          \* clean_text(result)
    \* ---- a run of main (specification Spec) ----
    pc,             \* position of main
    all_files,      \* the files os.walk listed, in order
    idx,            \* index of the next file of the parsing loop / next text of the redaction loop
    data,           \* the list `data`
    df,             \* the DataFrame `df`: its columns, each a sequence of values
    acc,            \* the list being built by the comprehension of lines 132-135
    engine,         \* what the analyzer/anonymizer did for each text it was asked about
    stdout,         \* what was printed, in order
    out_file        \* the parquet file: <<>> while unwritten, else <<table>>

cleanvars == <<cpc, text_in, steps, result, again>>
mainvars == <<pc, all_files, idx, data, df, acc, engine, stdout, out_file>>
vars == <<cpc, text_in, steps, result, again,
          pc, all_files, idx, data, df, acc, engine, stdout, out_file>>

-----------------------------------------------------------------------------
(* Characters and strings *)

UpperCase == <<"A","B","C","D","E","F","G","H","I","J","K","L","M",
               "N","O","P","Q","R","S","T","U","V","W","X","Y","Z">>
LowerCase == <<"a","b","c","d","e","f","g","h","i","j","k","l","m",
               "n","o","p","q","r","s","t","u","v","w","x","y","z">>

\* str.lower() on one character
LowerOf == [c \in {UpperCase[i] : i \in 1..26} |->
               LowerCase[CHOOSE i \in 1..26 : UpperCase[i] = c]]

Lower(c) == IF c \in DOMAIN LowerOf THEN LowerOf[c] ELSE c

\* the characters str.strip() removes
Whitespace == {" ", "\t", "\n", "\r"}

NL == "\n"

\* CharEq with the IGNORECASE flag forgotten
CharEq_flag_dropped(c, p, ignorecase) == c = p

\* one character of a regular expression's literal against one of the text
CharEq(c, p, ignorecase) ==
    IF ignorecase THEN Lower(c) = Lower(p) ELSE c = p

\* the literal `pat` matches `text` at position i
MatchAt(text, i, pat, ignorecase) ==
    /\ i + Len(pat) - 1 <= Len(text)
    /\ \A k \in 1..Len(pat) : CharEq(text[i + k - 1], pat[k], ignorecase)

\* leftmost position >= pos where `pat` matches, 0 if none
FindFrom(text, pos, pat, ignorecase) ==
    LET hits == {j \in pos..Len(text) : MatchAt(text, j, pat, ignorecase)}
    IN  IF hits = {} THEN 0 ELSE CHOOSE j \in hits : \A h \in hits : j <= h

\* position of the first newline at or after pos, Len(text)+1 if none:
\* where `.*` stops without re.DOTALL
LineEnd(text, pos) ==
    LET nls == {j \in pos..Len(text) : text[j] = NL}
    IN  IF nls = {} THEN Len(text) + 1 ELSE CHOOSE j \in nls : \A h \in nls : j <= h

\* re.sub(pat + ".*", "", text, flags): every non-overlapping match, left to
\* right, is deleted; `.*` runs to the end of the line, or of the text with DOTALL
RECURSIVE SubFrom(_, _, _, _, _)
SubFrom(text, pos, pat, ignorecase, dotall) ==
    LET j == FindFrom(text, pos, pat, ignorecase)
    IN  IF j = 0 THEN SubSeq(text, pos, Len(text))
        ELSE SubSeq(text, pos, j - 1) \o
             (IF dotall THEN <<>>
              ELSE SubFrom(text, LineEnd(text, j), pat, ignorecase, dotall))

\* re_sub replacing the first match only (count=1)
re_sub_first_only(pat, text, ignorecase, dotall) ==
    LET j == FindFrom(text, 1, pat, ignorecase)
    IN  IF j = 0 THEN text
        ELSE SubSeq(text, 1, j - 1) \o
             (IF dotall THEN <<>> ELSE SubSeq(text, LineEnd(text, j), Len(text)))

re_sub(pat, text, ignorecase, dotall) == SubFrom(text, 1, pat, ignorecase, dotall)

\* text.split("\n")
RECURSIVE Split(_)
Split(text) ==
    LET e == LineEnd(text, 1)
    IN  IF e > Len(text) THEN <<text>>
        ELSE <<SubSeq(text, 1, e - 1)>> \o Split(SubSeq(text, e + 1, Len(text)))

\* "\n".join(lines)
RECURSIVE Join(_)
Join(lines) ==
    IF lines = <<>> THEN <<>>
    ELSE IF Len(lines) = 1 THEN lines[1]
    ELSE lines[1] \o <<NL>> \o Join(Tail(lines))

\* text.strip()
Strip(text) ==
    LET ink == {j \in 1..Len(text) : text[j] \notin Whitespace}
    IN  IF ink = {} THEN <<>>
        ELSE SubSeq(text, CHOOSE j \in ink : \A h \in ink : j <= h,
                          CHOOSE j \in ink : \A h \in ink : j >= h)

\* line.strip() != ""
NotBlank(line) == Strip(line) # <<>>

-----------------------------------------------------------------------------
(* clean_text *)

PatOriginalMessage ==
    <<"-","-","-","-","-","O","r","i","g","i","n","a","l"," ",
      "M","e","s","s","a","g","e","-","-","-","-","-">>
PatFrom == <<"F","r","o","m",":">>
PatTo == <<"T","o",":">>
PatSent == <<"S","e","n","t",":">>
PatSubject == <<"S","u","b","j","e","c","t",":">>
PatQuote == <<">">>
PatSincerely == <<"S","i","n","c","e","r","e","l","y">>
PatBestRegards == <<"B","e","s","t"," ","r","e","g","a","r","d","s">>
PatConfidentiality ==
    <<"C","o","n","f","i","d","e","n","t","i","a","l","i","t","y"," ",
      "N","o","t","i","c","e">>

\* the substitutions of clean_text in order: literal, IGNORECASE, DOTALL
Substitutions == <<
    [pat |-> PatOriginalMessage, ignorecase |-> TRUE,  dotall |-> TRUE],
    [pat |-> PatFrom,            ignorecase |-> FALSE, dotall |-> FALSE],
    [pat |-> PatTo,              ignorecase |-> FALSE, dotall |-> FALSE],
    [pat |-> PatSent,            ignorecase |-> FALSE, dotall |-> FALSE],
    [pat |-> PatSubject,         ignorecase |-> FALSE, dotall |-> FALSE],
    [pat |-> PatQuote,           ignorecase |-> FALSE, dotall |-> FALSE],
    [pat |-> PatSincerely,       ignorecase |-> TRUE,  dotall |-> TRUE],
    [pat |-> PatBestRegards,     ignorecase |-> TRUE,  dotall |-> TRUE],
    [pat |-> PatConfidentiality, ignorecase |-> TRUE,  dotall |-> TRUE] >>

NSubs == Len(Substitutions)
QuoteStep == 6

\* one substitution statement of clean_text
ApplySub(k, text) ==
    re_sub(Substitutions[k].pat, text,
           Substitutions[k].ignorecase, Substitutions[k].dotall)

\* "\n".join([line for line in text.split("\n") if line.strip() != ""])
DropBlankLines(text) == Join(SelectSeq(Split(text), NotBlank))

\* the values the local `text` takes: after each substitution (1..NSubs),
\* after the blank-line filter (NSubs+1) and the returned value (NSubs+2)
RECURSIVE TraceFrom(_, _)
TraceFrom(k, text) ==
    IF k > NSubs
    THEN LET d == DropBlankLines(text) IN <<d, Strip(d)>>
    ELSE LET s == ApplySub(k, text) IN <<s>> \o TraceFrom(k + 1, s)

clean_trace(text) == TraceFrom(1, text)

\* a value that is not a str (None)
NoneValue == <<"None">>

\* isinstance(text, str)
IsStr(v) == v # NoneValue

clean_text(text) ==
    IF ~IsStr(text) THEN <<>> ELSE clean_trace(text)[NSubs + 2]

-----------------------------------------------------------------------------
(* Calls of clean_text on bounded inputs *)

\* the pieces an argument is built from: every pattern of clean_text, two of them
\* in another letter case, the two halves of a pattern, and ordinary characters
Fragments == <<
    <<"a">>, <<" ">>, <<NL>>, PatQuote,
    PatFrom, PatTo, PatSent, PatSubject,
    PatOriginalMessage,
    <<"s","i","n","c","e","r","e","l","y">>,
    <<"B","E","S","T"," ","R","E","G","A","R","D","S">>,
    PatConfidentiality,
    <<"F","r","o">>, <<"m",":">> >>

MaxPieces == 3

RECURSIVE Concat(_)
Concat(pieces) ==
    IF pieces = <<>> THEN <<>> ELSE Fragments[Head(pieces)] \o Concat(Tail(pieces))

Inputs ==
    {NoneValue} \cup
    UNION {{Concat(f) : f \in [1..n -> 1..Len(Fragments)]} : n \in 0..MaxPieces}

MainIdle ==
    /\ pc = "idle" /\ all_files = <<>> /\ idx = 0 /\ data = <<>>
    /\ df = <<>> /\ acc = <<>> /\ engine = <<>> /\ stdout = <<>> /\ out_file = <<>>

InitClean ==
    /\ cpc = "input"
    /\ text_in \in Inputs
    /\ steps = <<>> /\ result = <<>> /\ again = <<>>
    /\ MainIdle

\* result = clean_text(text_in), keeping the intermediate values of `text`
Clean ==
    /\ cpc = "input"
    /\ steps' = IF IsStr(text_in) THEN clean_trace(text_in) ELSE <<>>
    /\ result' = IF IsStr(text_in) THEN steps'[NSubs + 2] ELSE clean_text(text_in)
    /\ cpc' = "cleaned"
    /\ UNCHANGED <<text_in, again>>
    /\ UNCHANGED mainvars

\* again = clean_text(result)
Reclean ==
    /\ cpc = "cleaned"
    /\ again' = clean_text(result)
    /\ cpc' = "recleaned"
    /\ UNCHANGED <<text_in, steps, result>>
    /\ UNCHANGED mainvars

NextClean == Clean \/ Reclean

SpecClean == InitClean /\ [][NextClean]_vars

-----------------------------------------------------------------------------
(* anonymize_text *)

\* OperatorConfig("replace", {"new_value": "<REDACTED>"})
Redacted == <<"<","R","E","D","A","C","T","E","D",">">>

\* the analyzer reports at most this many entities in one text
MaxEntities == 1

\* an entity the analyzer found: the characters from..to of the text
Spans(text) == {sp \in (1..Len(text)) \X (1..Len(text)) : sp[1] <= sp[2]}

Disjoint(S) == \A a \in S, b \in S : a = b \/ a[2] < b[1] \/ b[2] < a[1]

\* what analyzer.analyze and anonymizer.anonymize can do for one text: either call
\* raises, or the entities found are replaced
EngineOutcomes(text) ==
    {[kind |-> "analyze_raises", spans |-> {}],
     [kind |-> "anonymize_raises", spans |-> {}]} \cup
    {[kind |-> "ok", spans |-> S] :
        S \in {T \in SUBSET Spans(text) : Cardinality(T) <= MaxEntities /\ Disjoint(T)}}

NotCalled == [kind |-> "not_called", spans |-> {}]

Raises(outcome) == outcome.kind \in {"analyze_raises", "anonymize_raises"}

\* anonymized_result.text: every entity replaced by the new value
RECURSIVE Redact(_, _)
Redact(text, S) ==
    IF S = {} THEN text
    ELSE LET last == CHOOSE a \in S : \A b \in S : b[1] <= a[1]
         IN  Redact(SubSeq(text, 1, last[1] - 1) \o Redacted \o
                    SubSeq(text, last[2] + 1, Len(text)),
                    S \ {last})

FailedLine == [line |-> "Anonymization failed for a text snippet", n |-> 0]

\* anonymize_text returning "" where the engines raise
anonymize_text_blank_on_failure(text, outcome) ==
    IF text = <<>> \/ Raises(outcome)
    THEN [value |-> <<>>,
          printed |-> IF text = <<>> THEN <<>> ELSE <<FailedLine>>,
          asked |-> IF text = <<>> THEN NotCalled ELSE outcome]
    ELSE [value |-> Redact(text, outcome.spans), printed |-> <<>>, asked |-> outcome]

\* anonymize_text(text, analyzer, anonymizer), the engines behaving as `outcome`:
\* the value returned, what is printed, and what the engines were asked
anonymize_text(text, outcome) ==
    IF text = <<>>
    THEN [value |-> <<>>, printed |-> <<>>, asked |-> NotCalled]
    ELSE IF Raises(outcome)
    THEN [value |-> text, printed |-> <<FailedLine>>, asked |-> outcome]
    ELSE [value |-> Redact(text, outcome.spans), printed |-> <<>>, asked |-> outcome]

-----------------------------------------------------------------------------
(* main *)

\* message.get("From") of a message without that header
NoSender == "None"

\* the files of the corpus, as the email library reads them: open/read/parse/decode
\* raises (ok = FALSE), or it yields a From header value and a plain-text body
Files == {
    [ok |-> FALSE, sender |-> NoSender, body |-> <<>>],
    [ok |-> TRUE, sender |-> "alice@enron.com", body |-> <<"k">>],
    [ok |-> TRUE, sender |-> "bob@enron.com", body |-> <<"k">>],
    [ok |-> TRUE, sender |-> "bob@enron.com", body |-> <<">","q">>],
    [ok |-> TRUE, sender |-> "alice@enron.com", body |-> <<>>],
    [ok |-> TRUE, sender |-> NoSender, body |-> <<"T","o",":","x",NL," ",NL,"y","o">>] }

MaxFiles == 3

Line(l) == [line |-> l, n |-> 0]
LineN(l, k) == [line |-> l, n |-> k]

EmptyFrame ==
    [columns |-> {}, sender |-> <<>>, body |-> <<>>,
     cleaned_body |-> <<>>, anonymized_body |-> <<>>]

CleanIdle ==
    /\ cpc = "idle" /\ text_in = <<>> /\ steps = <<>> /\ result = <<>> /\ again = <<>>

\* main up to the start of the parsing loop
Init ==
    /\ CleanIdle
    /\ pc = "parse"
    /\ all_files \in UNION {[1..n -> Files] : n \in 0..MaxFiles}
    /\ idx = 1
    /\ data = <<>>
    /\ df = EmptyFrame
    /\ acc = <<>>
    /\ engine = <<>>
    /\ stdout = <<Line("Step 1: Loading and parsing raw email files...")>>
    /\ out_file = <<>>

\* the parsing loop appending a row also for a file that raised
AppendParsed_always(d, file) == Append(d, [sender |-> file.sender, body |-> file.body])

\* the body of the parsing loop: the row is appended unless something raised
AppendParsed(d, file) ==
    IF file.ok THEN Append(d, [sender |-> file.sender, body |-> file.body]) ELSE d

\* one iteration of the parsing loop
ParseFile ==
    /\ pc = "parse"
    /\ idx <= Len(all_files)
    /\ data' = AppendParsed(data, all_files[idx])
    /\ idx' = idx + 1
    /\ UNCHANGED <<pc, all_files, df, acc, engine, stdout, out_file>>
    /\ UNCHANGED cleanvars

\* pd.DataFrame(data): a list of no rows makes a frame of no columns
DataFrame(d) ==
    IF d = <<>> THEN EmptyFrame
    ELSE [EmptyFrame EXCEPT !.columns = {"sender", "body"},
                            !.sender = [i \in 1..Len(d) |-> d[i].sender],
                            !.body = [i \in 1..Len(d) |-> d[i].body]]

\* the loop is over: df = pd.DataFrame(data) and the count is printed
BuildFrame ==
    /\ pc = "parse"
    /\ idx > Len(all_files)
    /\ df' = DataFrame(data)
    /\ stdout' = Append(stdout, LineN("Successfully loaded and parsed emails", Len(data)))
    /\ pc' = "clean"
    /\ UNCHANGED <<all_files, idx, data, acc, engine, out_file>>
    /\ UNCHANGED cleanvars

\* step 2: df["body"] raises KeyError when the frame has no such column
CleanBodies ==
    /\ pc = "clean"
    /\ stdout' = Append(stdout, Line("Step 2: Cleaning email body text..."))
    /\ IF "body" \notin df.columns
       THEN /\ pc' = "raised"
            /\ UNCHANGED df
       ELSE /\ pc' = "redact_start"
            /\ df' = [df EXCEPT !.columns = @ \cup {"cleaned_body"},
                                !.cleaned_body =
                                    [i \in 1..Len(df.body) |-> clean_text(df.body[i])]]
    /\ UNCHANGED <<all_files, idx, data, acc, engine, out_file>>
    /\ UNCHANGED cleanvars

\* step 3 up to the first call of anonymize_text
StartRedaction ==
    /\ pc = "redact_start"
    /\ stdout' = Append(stdout, Line("Step 3: Anonymizing PII (this may take a while)..."))
    /\ idx' = 1
    /\ acc' = <<>>
    /\ pc' = "redact"
    /\ UNCHANGED <<all_files, data, df, engine, out_file>>
    /\ UNCHANGED cleanvars

\* one call of anonymize_text in the comprehension
RedactText ==
    /\ pc = "redact"
    /\ idx <= Len(df.cleaned_body)
    /\ \E outcome \in EngineOutcomes(df.cleaned_body[idx]) :
          LET r == anonymize_text(df.cleaned_body[idx], outcome)
          IN  /\ acc' = Append(acc, r.value)
              /\ stdout' = stdout \o r.printed
              /\ engine' = Append(engine, r.asked)
    /\ idx' = idx + 1
    /\ UNCHANGED <<pc, all_files, data, df, out_file>>
    /\ UNCHANGED cleanvars

\* final_df = df[["sender", "anonymized_body"]].copy(), renamed to sender/text
Select(frame) ==
    [columns |-> <<"sender", "text">>, sender |-> frame.sender, text |-> frame.anonymized_body]

RECURSIVE MaskIdx(_, _)
MaskIdx(mask, i) ==
    IF i > Len(mask) THEN <<>>
    ELSE (IF mask[i] THEN <<i>> ELSE <<>>) \o MaskIdx(mask, i + 1)

\* the filter left out
FilterRows_none(final) == final

\* the filter applied to the text column only
FilterRows_text_only(final) ==
    LET mask == [i \in 1..Len(final.text) |-> Strip(final.text[i]) # <<>>]
        keep == MaskIdx(mask, 1)
    IN  [final EXCEPT !.sender = [k \in 1..Len(keep) |-> final.sender[k]],
                      !.text = [k \in 1..Len(keep) |-> final.text[keep[k]]]]

\* final_df[final_df["text"].str.strip() != ""]
FilterRows(final) ==
    LET mask == [i \in 1..Len(final.text) |-> Strip(final.text[i]) # <<>>]
        keep == MaskIdx(mask, 1)
    IN  [final EXCEPT !.sender = [k \in 1..Len(keep) |-> final.sender[keep[k]]],
                      !.text = [k \in 1..Len(keep) |-> final.text[keep[k]]]]

\* the comprehension is over: the column is assigned, and step 4 writes the file
SaveFinal ==
    /\ pc = "redact"
    /\ idx > Len(df.cleaned_body)
    /\ LET assigned == [df EXCEPT !.columns = @ \cup {"anonymized_body"},
                                  !.anonymized_body = acc]
           final_df == FilterRows(Select(assigned))
       IN  /\ df' = assigned
           /\ out_file' = Append(out_file, final_df)
           /\ stdout' = stdout \o
                <<Line("Step 4: Saving the final, processed dataset..."),
                  Line("Preprocessing complete!"),
                  LineN("Anonymized dataset saved", Len(final_df.text))>>
    /\ pc' = "done"
    /\ UNCHANGED <<all_files, idx, data, acc, engine>>
    /\ UNCHANGED cleanvars

Next == ParseFile \/ BuildFrame \/ CleanBodies \/ StartRedaction \/ RedactText \/ SaveFinal

Spec == Init /\ [][Next]_vars

-----------------------------------------------------------------------------
(* Properties of clean_text *)

\* `pat` occurs in `text`, letter for letter or in any letter case
Occurs(text, pat, anycase) ==
    \E i \in 1..(Len(text) - Len(pat) + 1) :
        \A k \in 1..Len(pat) :
            IF anycase THEN Lower(text[i + k - 1]) = Lower(pat[k])
            ELSE text[i + k - 1] = pat[k]

\* the letter case each named pattern is stated in: the five header and quote
\* patterns case-sensitive, the four markers in any letter case
AnyCase == <<TRUE, FALSE, FALSE, FALSE, FALSE, FALSE, TRUE, TRUE, TRUE>>

HasInk(text) == \E j \in 1..Len(text) : text[j] \notin {" ", "\t", "\n", "\r"}

\* C7: clean_text is idempotent: clean_text(clean_text(t)) = clean_text(t)
C7_Idempotent == cpc = "recleaned" => again = result

C7_Witness ==
    /\ cpc = "recleaned" /\ IsStr(text_in)
    /\ result # text_in /\ result # <<>> /\ again = result

C9_QuoteStepWholeLines ==
    (cpc = "cleaned" /\ IsStr(text_in)) =>
        LET before == Split(steps[QuoteStep - 1])
            after == Split(steps[QuoteStep])
        IN  /\ Len(after) = Len(before)
            /\ \A l \in 1..Len(before) :
                  IF before[l] # <<>> /\ before[l][1] = ">"
                  THEN after[l] = <<>>
                  ELSE after[l] = before[l]

-----------------------------------------------------------------------------
(* Properties of main *)

IsOk(file) == file.ok

\* the files that parsed, in the order listed
OkFiles == SelectSeq(all_files, IsOk)

RowsOf(files) == [i \in 1..Len(files) |-> [sender |-> files[i].sender, body |-> files[i].body]]

\* the rows of the table whose final text has a non-whitespace character
FinalHasInk(i) == HasInk(df.anonymized_body[i])
Kept == SelectSeq([i \in 1..Len(df.anonymized_body) |-> i], FinalHasInk)

Failures == {i \in 1..Len(engine) : Raises(engine[i])}

\* C1: every text written to the output file is the anonymizer's result for the
\* row's cleaned body, whatever the engines did
C1_OnlyRedactedWritten ==
    pc = "done" =>
        /\ Len(out_file[1].text) = Len(Kept)
        /\ \A k \in 1..Len(Kept) :
              /\ engine[Kept[k]].kind = "ok"
              /\ out_file[1].text[k] =
                    Redact(df.cleaned_body[Kept[k]], engine[Kept[k]].spans)

\* C2: where the analyzer or the anonymizer raises, anonymize_text prints one line
\* and returns the text it was given; the exception does not propagate, the other
\* rows are processed and the file is written
C2_FailureReturnsInput ==
    /\ \A i \in Failures :
          /\ acc[i] = df.cleaned_body[i]
          /\ pc = "done" => df.anonymized_body[i] = df.cleaned_body[i]
    /\ Cardinality({l \in 1..Len(stdout) : stdout[l] = FailedLine}) = Cardinality(Failures)
    /\ Failures # {} =>
          /\ pc \in {"redact", "done"}
          /\ (pc = "redact" /\ idx <= Len(df.cleaned_body)) => ENABLED RedactText
          /\ pc = "done" =>
                /\ Len(engine) = Len(df.cleaned_body)
                /\ Len(df.anonymized_body) = Len(df.cleaned_body)
                /\ Len(out_file) = 1

C2_Witness ==
    /\ pc = "done"
    /\ \E i \in Failures :
          /\ i > 1 /\ i < Len(engine)
          /\ engine[i - 1].kind = "ok" /\ engine[i + 1].kind = "ok"

\* C3: after the parsing pass the table holds one row per file that parsed, in the
\* order listed; a file that raises adds no row, prints nothing, leaves the rows
\* collected so far as they are and does not stop the loop
C3_OneRowPerParsedFile ==
    /\ pc = "parse" =>
          /\ data = RowsOf(SelectSeq(SubSeq(all_files, 1, idx - 1), IsOk))
          /\ Len(stdout) = 1
          /\ idx <= Len(all_files) => ENABLED ParseFile
          /\ idx > Len(all_files) => ENABLED BuildFrame
    /\ pc # "parse" =>
          /\ data = RowsOf(OkFiles)
          /\ Len(df.sender) = Len(OkFiles) /\ Len(df.body) = Len(OkFiles)
          /\ \A i \in 1..Len(OkFiles) :
                df.sender[i] = OkFiles[i].sender /\ df.body[i] = OkFiles[i].body

C3_Witness ==
    /\ pc = "clean"
    /\ Len(df.sender) = 2
    /\ \E i \in 2..(Len(all_files) - 1) :
          ~all_files[i].ok /\ all_files[i - 1].ok /\ all_files[i + 1].ok

\* C4: for every tree of files, an empty one and one of unparsable files included,
\* main ends having written exactly one file with the columns sender and text
C4_AlwaysOneOutputFile ==
    pc \in {"done", "raised"} =>
        /\ Len(out_file) = 1
        /\ out_file[1].columns = <<"sender", "text">>

\* C5: the number of rows written is the number of files that parsed, have a
\* non-empty cleaned text and were anonymized without failure
C5_RowCountIsSuccesses ==
    pc = "done" =>
        Len(out_file[1].text) =
            Cardinality({i \in 1..Len(engine) : engine[i].kind = "ok"})

\* C6: no row of the output file has an empty or whitespace-only text, and every row
\* of the table whose final text has a non-whitespace character is written, in order
C6_NonBlankRowsWritten ==
    pc = "done" =>
        /\ \A k \in 1..Len(out_file[1].text) : HasInk(out_file[1].text[k])
        /\ Len(out_file[1].text) = Len(Kept)
        /\ \A k \in 1..Len(Kept) : out_file[1].text[k] = df.anonymized_body[Kept[k]]

C6_Witness ==
    /\ pc = "done"
    /\ Len(out_file[1].text) >= 2
    /\ \E i \in 1..Len(df.anonymized_body) : df.anonymized_body[i] = <<>> /\ i < Kept[2]

\* C10: the sender of every output row is the From value of the row's own file: no
\* pass changes a sender or pairs a text with the sender of another file
C10_SenderPreserved ==
    /\ "sender" \in df.columns => df.sender = [i \in 1..Len(OkFiles) |-> OkFiles[i].sender]
    /\ pc = "done" =>
          /\ Len(out_file[1].sender) = Len(Kept)
          /\ \A k \in 1..Len(Kept) :
                /\ out_file[1].sender[k] = OkFiles[Kept[k]].sender
                /\ out_file[1].text[k] = acc[Kept[k]]

C10_Witness ==
    /\ pc = "done"
    /\ Failures # {}
    /\ \E k \in 1..Len(Kept) :
          /\ Kept[k] # k
          /\ OkFiles[Kept[k]].sender # OkFiles[k].sender

====
